---- MODULE Spec2Model ----
(***************************************************************************)
(* Server lifecycle, TLS renewal callbacks and signal-driven shutdown of   *)
(* spa-server.  The repository holds three variants of main():             *)
(*   "main"      src/main.go            simplecert, serve(ctx, srv)         *)
(*   "part_001"  src/unnamed/part_001   simplecert, serveTLS(srv, cache)    *)
(*   "part_002"  src/unnamed/part_002   static fullchain/privkey, no renew  *)
(* One behaviour of the model is one run of one variant.                   *)
(***************************************************************************)
EXTENDS Integers, Sequences, FiniteSets, TLC

VARIABLES
    variant,    \* which main() runs
    args,       \* CmdLineArgs after parseArgs
    pc,         \* position of the main control flow
    exit,       \* [code, by, at]: exit status, what ended the process, where main was
    srv,        \* the closure variable srv: the server the supervisor will shut down
    servers,    \* per http.Server: listener state, listener error, inShutdown, TLSConfig
    getCert,    \* tlsConf.GetCertificate is set
    redirect,   \* the ":80" redirect listener: none, listening or failed
    renewPc,    \* position of simplecert's renewal routine (WillRenew, then DidRenew)
    numRenews,  \* the numRenews counter
    spc,        \* position of each serve(ctx, srv) call (main.go only)
    ctx,        \* the context shared by main and the renewal callbacks
    termCtx,    \* the context main builds after the signal (main.go, part_002)
    sdCtx,      \* the shutdown context of each serve(ctx, srv) call
    conns,      \* client connections
    c,          \* the signal channel, capacity 1
    notified,   \* signal.Notify has been called
    signalled,  \* a termination signal has been sent to the process
    sd,         \* the terminal Shutdown call: its server, the listener's close
                \* error, its result, and the time its deadline had left at entry
    req         \* one request to spaHandler: the files on disk, r.URL.Path and
                \* the response written

vars == <<variant, args, pc, exit, srv, servers, getCert, redirect, renewPc,
          numRenews, spc, ctx, termCtx, sdCtx, conns, c, notified, signalled, sd,
          req>>

\* ---------------------------------------------------------------- bounds
MaxRenews == 1
MaxConns == 1
MaxWaitSteps == 2

\* the hard-coded timeout of serve's Shutdown, in seconds.  Time is counted in
\* steps of this length, the shortest timeout of the program.
ServeShutdownSecs == 5

\* the values of -graceful-timeout, in seconds: the timeout of serve's
\* Shutdown itself, and the longest one
WaitSet == {ServeShutdownSecs, MaxWaitSteps * ServeShutdownSecs}

Variants == {"main", "part_001", "part_002"}
Servers == 0..MaxRenews
Replacements == 1..MaxRenews
ConnIds == 1..MaxConns
Signals == {"SIGINT", "SIGHUP", "SIGQUIT"}

\* -------------------------------------------------------------- contexts
NoCtx == [live |-> FALSE, timed |-> FALSE, dur |-> 0, left |-> 0, err |-> "none"]

WithCancel == [live |-> TRUE, timed |-> FALSE, dur |-> 0, left |-> 0, err |-> "none"]

WithTimeout(d) == [live |-> TRUE, timed |-> TRUE, dur |-> d, left |-> d, err |-> "none"]

Cancel(x) ==
    IF x.live /\ x.err = "none" THEN [x EXCEPT !.err = "canceled", !.left = 0] ELSE x

CtxDone(x) == x.live /\ x.err # "none"

CtxRunning(x) == x.live /\ x.timed /\ x.err = "none"

\* one step of time passes for a context
TickCtx(x) ==
    IF CtxRunning(x)
    THEN IF x.left > ServeShutdownSecs
         THEN [x EXCEPT !.left = x.left - ServeShutdownSecs]
         ELSE [x EXCEPT !.left = 0, !.err = "deadline"]
    ELSE x

\* time left before the context's deadline; none once it is done
Remaining(x) == IF CtxRunning(x) THEN x.left ELSE 0

\* ------------------------------------------------------------- arguments
ArgSet(v) ==
    {a \in [SSL : BOOLEAN, Port : {5000, 443}, Wait : WaitSet,
            Domain : {"", "mysite.com"},
            CertCache : {"", "cache"}, SSLEmail : {"", "email"},
            FullChain : {"", "fullchain.pem"}, PrivKey : {"", "privkey.pem"}] :
        /\ (~a.SSL => a.Port = 5000 /\ a.Domain = "" /\ a.CertCache = ""
                      /\ a.SSLEmail = "" /\ a.FullChain = "" /\ a.PrivKey = "")
        /\ (v = "part_002" => a.Domain = "" /\ a.CertCache = "" /\ a.SSLEmail = "")
        /\ (v # "part_002" => a.FullChain = "" /\ a.PrivKey = "")}

\* the SSL checks at the head of main: FALSE is a log.Fatal
ConfigOK(v, a) ==
    \/ ~a.SSL
    \/ /\ v = "main"
       /\ a.Port = 443 /\ a.CertCache # "" /\ a.SSLEmail # ""
    \/ /\ v = "part_001"
       /\ a.CertCache # "" /\ a.SSLEmail # ""
    \/ /\ v = "part_002"
       /\ a.Port = 443 /\ a.FullChain # "" /\ a.PrivKey # ""

\* the signals handed to signal.Notify
NotifySet(v) == IF v = "part_001" THEN {"SIGHUP", "SIGINT", "SIGQUIT"} ELSE {"SIGINT"}

\* TLS with simplecert: the variants with renewal callbacks
AutoTLS == args.SSL /\ variant \in {"main", "part_001"}

\* ---------------------------------------------------------------- servers
NoServer == [state |-> "none", err |-> "none", inShutdown |-> FALSE, TLSConfig |-> FALSE]

\* makeServer: a server that is not listening yet
makeServer == [state |-> "built", err |-> "none", inShutdown |-> FALSE, TLSConfig |-> FALSE]

Alive == pc # "exited"

Listening(s) == Alive /\ servers[s].state = "listening"

\* another server of this process holds the (host, port)
AddrInUse(s) == \E t \in Servers : t # s /\ servers[t].state = "listening"

\* no connection of server s is still being served
ConnsIdle(s) == \A k \in ConnIds : ~(conns[k].st = "active" /\ conns[k].srv = s)

\* http.Server.Shutdown, its entry: inShutdown is set and the listener closed
ShutdownInvoked(sv, s) ==
    [sv EXCEPT ![s] = [@ EXCEPT !.inShutdown = TRUE,
                                !.state = IF @ = "listening" THEN "closed" ELSE @,
                                !.err = IF sv[s].state = "listening"
                                        THEN "ErrServerClosed" ELSE @]]

\* a Shutdown that waits for the connections whatever the context says
ShutdownIgnoresCtx(s, x) == ConnsIdle(s)

\* http.Server.Shutdown, its wait loop: it returns when the server's connections
\* are idle or when the context is done
ShutdownMayReturn(s, x) == ConnsIdle(s) \/ CtxDone(x)

\* the context handed to the terminal Shutdown
TermCtx == IF variant = "part_001" THEN ctx ELSE termCtx

\* the exit status main chooses from Shutdown's result
ExitStatus(v, err) ==
    IF v = "part_001"
    THEN IF err = "ErrServerClosed" THEN 0 ELSE IF err # "nil" THEN 1 ELSE 0
    ELSE 0

\* ------------------------------------------------------------- spaHandler
\* A path is the sequence of its segments: "/" is <<>>, "/a/b" is <<"a", "b">>,
\* and a trailing slash is an empty last segment.
MaxPathLen == 2

Names == {"a", "index.html"}
Segments == Names \cup {"", ".", ".."}

\* the values of r.URL.Path
URLPaths == UNION {[1..n -> Segments] : n \in 0..MaxPathLen}

\* spaHandler{staticPath: rootDir, indexPath: "index.html"}, the root directory
\* as an absolute path of the host
staticPath == <<"www">>
indexPath == <<"index.html">>

\* the host's files: the root directory, what it may hold, and a file outside it
FsNodes ==
    {<<>>, <<"a">>, staticPath} \cup
    {staticPath \o q : q \in UNION {[1..n -> Names] : n \in 1..2}}

Parent(p) == SubSeq(p, 1, Len(p) - 1)

FileSystems ==
    {f \in [FsNodes -> {"none", "file", "dir"}] :
        /\ f[<<>>] = "dir" /\ f[staticPath] = "dir" /\ f[<<"a">>] = "file"
        /\ \A p \in FsNodes \ {<<>>} : f[p] # "none" => f[Parent(p)] = "dir"}

KindOf(f, p) == IF p \in DOMAIN f THEN f[p] ELSE "none"

\* os.Stat(path): the kind of what is there, or the error of the first
\* component that cannot be walked
Stat(f, p) ==
    LET bad == {i \in 1..Len(p) : KindOf(f, SubSeq(p, 1, i)) # "dir"} IN
    IF bad = {} THEN "dir"
    ELSE LET i == CHOOSE j \in bad : \A k \in bad : j <= k
             kind == KindOf(f, SubSeq(p, 1, i))
         IN IF kind = "none" THEN "ENOENT"
            ELSE IF i < Len(p) THEN "ENOTDIR"
            ELSE "file"

\* filepath.Clean of a rooted path, onto the components already kept
RECURSIVE CleanOnto(_, _)
CleanOnto(out, p) ==
    IF p = <<>> THEN out
    ELSE CleanOnto(IF Head(p) \in {"", "."} THEN out
                   ELSE IF Head(p) = ".."
                        THEN (IF out = <<>> THEN out ELSE Parent(out))
                        ELSE Append(out, Head(p)),
                   Tail(p))

Clean(p) == CleanOnto(<<>>, p)

\* a handler that joins r.URL.Path to the root as it came
AbsRaw(p) == p

\* filepath.Abs of a rooted path
Abs(p) == Clean(p)

\* filepath.Join(dir, p)
Join(dir, p) == Clean(dir \o p)

EndsWithSlash(p) == p = <<>> \/ p[Len(p)] = ""
HasIndexSuffix(p) == p # <<>> /\ p[Len(p)] = "index.html"
containsDotDot(p) == \E i \in 1..Len(p) : p[i] = ".."

\* what the handler writes: the status, what the body is, the file or
\* directory it comes from, and the path the handler resolved
NoResp == [status |-> 0, body |-> "none", file |-> <<>>, stat |-> <<>>]
Response(status, body, file) ==
    [status |-> status, body |-> body, file |-> file, stat |-> <<>>]

NoRequest == [st |-> "none", fs |-> <<>>, path |-> <<>>, resp |-> NoResp]

\* net/http serveFile(w, r, http.Dir(dir), name, redir) for the request path P
serveFile(f, P, dir, name, redir) ==
    LET full == dir \o Clean(name)
        d == Stat(f, full)
        index == full \o indexPath
    IN IF HasIndexSuffix(P) THEN Response(301, "none", <<>>)
       ELSE IF d \in {"ENOENT", "ENOTDIR"} THEN Response(404, "none", <<>>)
       ELSE IF redir /\ d = "dir" /\ ~EndsWithSlash(P) THEN Response(301, "none", <<>>)
       ELSE IF redir /\ d = "file" /\ EndsWithSlash(P) THEN Response(301, "none", <<>>)
       ELSE IF d = "file" THEN Response(200, "file", full)
       ELSE IF Stat(f, index) = "file" THEN Response(200, "file", index)
       ELSE IF Stat(f, index) = "dir" THEN Response(200, "dirlist", index)
       ELSE Response(200, "dirlist", full)

\* http.ServeFile(w, r, name)
ServeFile(f, P, name) ==
    IF containsDotDot(P) THEN Response(400, "none", <<>>)
    ELSE serveFile(f, P, Parent(name), <<name[Len(name)]>>, FALSE)

\* http.FileServer(http.Dir(root)).ServeHTTP(w, r)
FileServer(f, P, root) == serveFile(f, P, root, P, TRUE)

\* spaHandler.ServeHTTP for the request path P
spaHandler(f, P) ==
    LET path == Join(staticPath, Abs(P))
        st == Stat(f, path)
        resp == IF st = "ENOENT" THEN ServeFile(f, P, Join(staticPath, indexPath))
                ELSE IF st = "ENOTDIR" THEN Response(500, "none", <<>>)
                ELSE FileServer(f, P, staticPath)
    IN [resp EXCEPT !.stat = path]

\* ------------------------------------------------------------------- Init
Init ==
    /\ variant \in Variants
    /\ args \in ArgSet(variant)
    /\ pc = "start"
    /\ exit = [code |-> 0, by |-> "none", at |-> "none"]
    /\ srv = 0
    /\ servers = [s \in Servers |-> NoServer]
    /\ getCert = FALSE
    /\ redirect = "none"
    /\ renewPc = "off"
    /\ numRenews = 0
    /\ spc = [s \in Servers |-> "none"]
    /\ ctx = NoCtx
    /\ termCtx = NoCtx
    /\ sdCtx = [s \in Servers |-> NoCtx]
    /\ conns = [k \in ConnIds |-> [st |-> "free", srv |-> 0, epoch |-> 0]]
    /\ c = <<>>
    /\ notified = FALSE
    /\ signalled = FALSE
    /\ sd = [srv |-> 0, lnerr |-> "nil", err |-> "none", left |-> 0]
    /\ req = NoRequest

\* the process ends: os.Exit, log.Fatal or a signal's default disposition.
\* Its goroutines, contexts and signal channel end with it.
Exit(code, by) ==
    /\ pc' = "exited"
    /\ exit' = [code |-> code, by |-> by, at |-> pc]
    /\ spc' = [s \in Servers |-> "none"]
    /\ ctx' = NoCtx
    /\ termCtx' = NoCtx
    /\ sdCtx' = [s \in Servers |-> NoCtx]
    /\ c' = <<>>

\* ------------------------------------------------------ main control flow
\* the SSL checks, then srv := makeServer(...)
Startup ==
    /\ pc = "start"
    /\ IF ConfigOK(variant, args)
       THEN /\ pc' = "validated"
            /\ args' = IF variant = "part_001" /\ args.SSL
                       THEN [args EXCEPT !.Port = 443] ELSE args
            /\ servers' = [servers EXCEPT ![0] = makeServer]
            /\ UNCHANGED <<exit, spc, ctx, termCtx, sdCtx, c>>
       ELSE /\ Exit(1, "config")
            /\ UNCHANGED <<args, servers>>
    /\ UNCHANGED <<req, variant, srv, getCert, redirect, renewPc, numRenews, conns,
                   notified, signalled, sd>>

\* go srv.ListenAndServe() / go srv.ListenAndServeTLS(fullchain, privkey)
LaunchPlain ==
    /\ pc = "validated"
    /\ ~AutoTLS
    /\ pc' = "notify"
    /\ servers' = [servers EXCEPT ![srv].state = "pending"]
    /\ ctx' = IF variant = "part_001" THEN WithTimeout(args.Wait) ELSE ctx
    /\ UNCHANGED <<req, variant, args, exit, srv, getCert, redirect, renewPc, numRenews,
                   spc, termCtx, sdCtx, conns, c, notified, signalled, sd>>

\* ctx, cancel := ...; the callbacks are set; simplecert.Init
InitCert ==
    /\ pc = "validated"
    /\ AutoTLS
    /\ \E ok \in BOOLEAN :
          IF ok
          THEN /\ pc' = "inited"
               /\ ctx' = IF variant = "part_001"
                         THEN WithTimeout(args.Wait) ELSE WithCancel
               /\ UNCHANGED <<exit, spc, termCtx, sdCtx, c>>
          ELSE Exit(1, "init")
    /\ UNCHANGED <<req, variant, args, srv, servers, getCert, redirect, renewPc,
                   numRenews, conns, notified, signalled, sd>>

\* go http.ListenAndServe(":80", ...), whose bind succeeds or fails and whose
\* error is dropped (nothing else reads it, so its outcome is drawn here);
\* tlsConf.GetCertificate; then serveTLS(srv, ...) or serve(ctx, srv).  The
\* renewal routine sleeps its check interval first, so its callbacks run only
\* after this point.
LaunchAuto ==
    /\ pc = "inited"
    /\ \E ok \in BOOLEAN : redirect' = IF ok THEN "listening" ELSE "failed"
    /\ getCert' = TRUE
    /\ renewPc' = "idle"
    /\ servers' = [servers EXCEPT ![srv].state = "pending"]
    /\ IF variant = "main"
       THEN pc' = "serve" /\ spc' = [spc EXCEPT ![srv] = "wait"]
       ELSE pc' = "notify" /\ spc' = spc
    /\ UNCHANGED <<req, variant, args, exit, srv, numRenews, ctx, termCtx, sdCtx, conns,
                   c, notified, signalled, sd>>

\* c := make(chan os.Signal, 1); signal.Notify(c, ...)
Notify ==
    /\ pc = "notify"
    /\ pc' = "waitSignal"
    /\ notified' = TRUE
    /\ UNCHANGED <<req, variant, args, exit, srv, servers, getCert, redirect, renewPc,
                   numRenews, spc, ctx, termCtx, sdCtx, conns, c, signalled, sd>>

\* <-c, then srv.Shutdown(ctx) is entered on the server srv names now.  With
\* no connection open Shutdown returns from its first check and main exits;
\* else main waits in Shutdown.
RecvSignal ==
    /\ pc = "waitSignal"
    /\ c # <<>>
    /\ \E e \in (IF servers[srv].state = "listening" THEN {"nil", "lnerr"} ELSE {"nil"}) :
          LET given == IF variant = "part_001" THEN ctx ELSE WithTimeout(args.Wait) IN
          IF ConnsIdle(srv)
          THEN /\ sd' = [srv |-> srv, lnerr |-> e, err |-> e, left |-> Remaining(given)]
               /\ Exit(ExitStatus(variant, e), "shutdown")
          ELSE /\ sd' = [srv |-> srv, lnerr |-> e, err |-> "pending",
                         left |-> Remaining(given)]
               /\ pc' = "shutdown"
               /\ c' = Tail(c)
               /\ termCtx' = IF variant = "part_001" THEN termCtx ELSE given
               /\ UNCHANGED <<exit, spc, ctx, sdCtx>>
    /\ servers' = ShutdownInvoked(servers, srv)
    /\ UNCHANGED <<req, variant, args, srv, getCert, redirect, renewPc, numRenews,
                   conns, notified, signalled>>

\* a supervisor that goes back to its signal wait when Shutdown has returned
TermShutdownLoop ==
    /\ pc = "shutdown"
    /\ ShutdownMayReturn(sd.srv, TermCtx)
    /\ sd' = [sd EXCEPT !.err = IF ConnsIdle(sd.srv) THEN sd.lnerr ELSE TermCtx.err]
    /\ pc' = "waitSignal"
    /\ UNCHANGED <<req, variant, args, exit, srv, servers, getCert, redirect, renewPc,
                   numRenews, spc, ctx, termCtx, sdCtx, conns, c, notified, signalled>>

\* srv.Shutdown(ctx) returns to main, which exits with the status it chooses
TermShutdownReturn ==
    /\ pc = "shutdown"
    /\ ShutdownMayReturn(sd.srv, TermCtx)
    /\ LET err == IF ConnsIdle(sd.srv) THEN sd.lnerr ELSE TermCtx.err
       IN /\ sd' = [sd EXCEPT !.err = err]
          /\ Exit(ExitStatus(variant, err), "shutdown")
    /\ UNCHANGED <<req, variant, args, srv, servers, getCert, redirect, renewPc,
                   numRenews, conns, notified, signalled>>

\* ------------------------------------------------------ listener goroutines
\* a listen error other than ErrServerClosed is a log.Fatalf in serve and
\* serveTLS, and only logged by the plain and static-certificate launches
ListenFatal == AutoTLS

\* ListenAndServeTLS("", "") needs a certificate source in srv.TLSConfig
NoCertificate(s) == variant = "main" /\ args.SSL /\ ~(servers[s].TLSConfig /\ getCert)

\* the error ListenAndServe / ListenAndServeTLS returns without having served;
\* envErr: the bind fails for a reason outside the process
ListenErrReuse(s, envErr) ==
    IF servers[s].inShutdown THEN "ErrServerClosed"
    ELSE IF envErr THEN "other"
    ELSE IF NoCertificate(s) THEN "nocert"
    ELSE "none"

ListenErr(s, envErr) ==
    IF servers[s].inShutdown THEN "ErrServerClosed"
    ELSE IF envErr THEN "other"
    ELSE IF AddrInUse(s) THEN "EADDRINUSE"
    ELSE IF NoCertificate(s) THEN "nocert"
    ELSE "none"

\* the goroutine running srv.ListenAndServe[TLS] gets to its bind
Listen(s) ==
    /\ Alive
    /\ servers[s].state = "pending"
    /\ \E envErr \in BOOLEAN :
          LET err == ListenErr(s, envErr) IN
          IF err = "none"
          THEN /\ servers' = [servers EXCEPT ![s].state = "listening"]
               /\ UNCHANGED <<pc, exit, spc, ctx, termCtx, sdCtx, c>>
          ELSE /\ servers' = [servers EXCEPT ![s].state =
                                  IF err = "ErrServerClosed" THEN "closed" ELSE "failed",
                                             ![s].err = err]
               /\ IF err # "ErrServerClosed" /\ ListenFatal
                  THEN Exit(1, "listen")
                  ELSE UNCHANGED <<pc, exit, spc, ctx, termCtx, sdCtx, c>>
    /\ UNCHANGED <<req, variant, args, srv, getCert, redirect, renewPc, numRenews,
                   conns, notified, signalled, sd>>

\* ------------------------------------------------------------ serve(ctx, srv)
\* <-ctx.Done(), then srv.Shutdown(shutdown) is entered with its own timeout.
\* With no connection open it returns from its first check, cancel() runs and
\* serve returns (to main, for the call main made itself).
ServeCtxDone(s) ==
    /\ Alive
    /\ spc[s] = "wait"
    /\ CtxDone(ctx)
    /\ servers' = ShutdownInvoked(servers, s)
    /\ IF ConnsIdle(s)
       THEN /\ spc' = [spc EXCEPT ![s] = "done"]
            /\ sdCtx' = [sdCtx EXCEPT ![s] = Cancel(WithTimeout(ServeShutdownSecs))]
            /\ pc' = IF s = 0 THEN "notify" ELSE pc
       ELSE /\ spc' = [spc EXCEPT ![s] = "shutdown"]
            /\ sdCtx' = [sdCtx EXCEPT ![s] = WithTimeout(ServeShutdownSecs)]
            /\ pc' = pc
    /\ UNCHANGED <<req, variant, args, exit, srv, getCert, redirect, renewPc,
                   numRenews, ctx, termCtx, conns, c, notified, signalled, sd>>

\* srv.Shutdown(shutdown) returns, its result is logged, cancel() runs; the
\* call main made itself returns to main
ServeShutdownReturn(s) ==
    /\ Alive
    /\ spc[s] = "shutdown"
    /\ ShutdownMayReturn(s, sdCtx[s])
    /\ spc' = [spc EXCEPT ![s] = "done"]
    /\ sdCtx' = [sdCtx EXCEPT ![s] = Cancel(@)]
    /\ pc' = IF s = 0 THEN "notify" ELSE pc
    /\ UNCHANGED <<req, variant, args, exit, srv, servers, getCert, redirect, renewPc,
                   numRenews, ctx, termCtx, conns, c, notified, signalled, sd>>

\* ---------------------------------------------------------- renewal callbacks
\* a WillRenewCertificate that also closes the active server and its connections
WillRenewClose ==
    /\ Alive
    /\ renewPc = "idle"
    /\ numRenews < MaxRenews
    /\ renewPc' = "renewing"
    /\ ctx' = Cancel(ctx)
    /\ servers' = ShutdownInvoked(servers, srv)
    /\ conns' = [k \in ConnIds |->
                    IF conns[k].st = "active" /\ conns[k].srv = srv
                    THEN [st |-> "done", srv |-> 0, epoch |-> 0] ELSE conns[k]]
    /\ UNCHANGED <<req, variant, args, pc, exit, srv, getCert, redirect,
                   numRenews, spc, termCtx, sdCtx, c, notified, signalled, sd>>

\* cfg.WillRenewCertificate: cancel()
WillRenew ==
    /\ Alive
    /\ renewPc = "idle"
    /\ numRenews < MaxRenews
    /\ renewPc' = "renewing"
    /\ ctx' = Cancel(ctx)
    /\ UNCHANGED <<req, variant, args, pc, exit, srv, servers, getCert, redirect,
                   numRenews, spc, termCtx, sdCtx, conns, c, notified, signalled, sd>>

\* a DidRenewCertificate whose new server goes to a variable of its own
\* (srv := makeServer(...)) and leaves the shared srv as it was
DidRenewShadow ==
    /\ Alive
    /\ renewPc = "renewing"
    /\ renewPc' = "idle"
    /\ numRenews' = numRenews + 1
    /\ srv' = srv
    /\ servers' = [servers EXCEPT ![numRenews + 1] =
                      [makeServer EXCEPT !.TLSConfig = TRUE, !.state = "pending"]]
    /\ spc' = IF variant = "main" THEN [spc EXCEPT ![numRenews + 1] = "wait"] ELSE spc
    /\ UNCHANGED <<req, variant, args, pc, exit, getCert, redirect, ctx, termCtx, sdCtx,
                   conns, c, notified, signalled, sd>>

\* cfg.DidRenewCertificate: numRenews++, srv = makeServer(...),
\* srv.TLSConfig = tlsConf, then serveTLS(srv, ...) or go serve(ctx, srv).
\* serve's first statement, the launch of the listener goroutine, is taken
\* with the go statement: no other step reads what it writes.
DidRenew ==
    /\ Alive
    /\ renewPc = "renewing"
    /\ renewPc' = "idle"
    /\ numRenews' = numRenews + 1
    /\ srv' = numRenews + 1
    /\ servers' = [servers EXCEPT ![numRenews + 1] =
                      [makeServer EXCEPT !.TLSConfig = TRUE, !.state = "pending"]]
    /\ spc' = IF variant = "main" THEN [spc EXCEPT ![numRenews + 1] = "wait"] ELSE spc
    /\ UNCHANGED <<req, variant, args, pc, exit, getCert, redirect, ctx, termCtx, sdCtx,
                   conns, c, notified, signalled, sd>>

\* ------------------------------------------------------------------ clients
\* a listening server accepts a connection and starts on its request
Accept(k, s) ==
    /\ Listening(s)
    /\ conns[k].st = "free"
    /\ \A j \in ConnIds : j < k => conns[j].st # "free"
    /\ conns' = [conns EXCEPT ![k] = [st |-> "active", srv |-> s, epoch |-> numRenews]]
    /\ UNCHANGED <<req, variant, args, pc, exit, srv, servers, getCert, redirect, renewPc,
                   numRenews, spc, ctx, termCtx, sdCtx, c, notified, signalled, sd>>

\* the handler writes its response and the connection ends
Complete(k) ==
    /\ Alive
    /\ conns[k].st = "active"
    /\ conns' = [conns EXCEPT ![k] = [st |-> "done", srv |-> 0, epoch |-> 0]]
    /\ UNCHANGED <<req, variant, args, pc, exit, srv, servers, getCert, redirect, renewPc,
                   numRenews, spc, ctx, termCtx, sdCtx, c, notified, signalled, sd>>

\* a connection the process ended under
Aborted(k) == pc = "exited" /\ conns[k].st = "active"

\* ------------------------------------------------------------------ signals
\* the operating system delivers a signal: to the channel when it is notified
\* (dropped when the channel is full), else the default disposition ends the
\* process
Signal(sig) ==
    /\ Alive
    /\ signalled' = TRUE
    /\ IF notified /\ sig \in NotifySet(variant)
       THEN /\ c' = IF Len(c) < 1 THEN Append(c, sig) ELSE c
            /\ UNCHANGED <<pc, exit, spc, ctx, termCtx, sdCtx>>
       ELSE Exit(2, "signal")
    /\ UNCHANGED <<req, variant, args, srv, servers, getCert, redirect, renewPc,
                   numRenews, conns, notified, sd>>

\* --------------------------------------------------------------------- time
\* one step of time passes: every running deadline comes that much closer
Tick ==
    /\ Alive
    /\ \/ CtxRunning(ctx)
       \/ CtxRunning(termCtx)
       \/ \E s \in Servers : CtxRunning(sdCtx[s])
    /\ ctx' = TickCtx(ctx)
    /\ termCtx' = TickCtx(termCtx)
    /\ sdCtx' = [s \in Servers |-> TickCtx(sdCtx[s])]
    /\ UNCHANGED <<req, variant, args, pc, exit, srv, servers, getCert, redirect, renewPc,
                   numRenews, spc, conns, c, notified, signalled, sd>>

\* ------------------------------------------------------------ specification
Next ==
    \/ Startup
    \/ LaunchPlain
    \/ InitCert
    \/ LaunchAuto
    \/ Notify
    \/ RecvSignal
    \/ TermShutdownReturn
    \/ \E s \in Servers : Listen(s)
    \/ \E s \in Servers : ServeCtxDone(s)
    \/ \E s \in Servers : ServeShutdownReturn(s)
    \/ WillRenew
    \/ DidRenew
    \/ \E k \in ConnIds, s \in Servers : Accept(k, s)
    \/ \E k \in ConnIds : Complete(k)
    \/ \E sig \in Signals : Signal(sig)
    \/ Tick

Spec == Init /\ [][Next]_vars

\* the scheduler runs the main goroutine and time passes
FairSpec ==
    /\ Spec
    /\ WF_vars(RecvSignal)
    /\ WF_vars(TermShutdownReturn)
    /\ WF_vars(Tick)

\* ------------------------------------------------------- the request handler
\* the handler is the same in the three variants and reads nothing of the
\* lifecycle: a request is taken on a connection of the plain-HTTP server,
\* which listens while main waits for a signal
HandlerInit ==
    /\ variant \in Variants
    /\ args \in {a \in ArgSet(variant) : ~a.SSL /\ a.Wait = ServeShutdownSecs}
    /\ pc = "waitSignal"
    /\ exit = [code |-> 0, by |-> "none", at |-> "none"]
    /\ srv = 0
    /\ servers = [s \in Servers |->
                     IF s = 0 THEN [makeServer EXCEPT !.state = "listening"]
                     ELSE NoServer]
    /\ getCert = FALSE
    /\ redirect = "none"
    /\ renewPc = "off"
    /\ numRenews = 0
    /\ spc = [s \in Servers |-> "none"]
    /\ ctx = IF variant = "part_001" THEN WithTimeout(args.Wait) ELSE NoCtx
    /\ termCtx = NoCtx
    /\ sdCtx = [s \in Servers |-> NoCtx]
    /\ conns = [k \in ConnIds |->
                   IF k = 1 THEN [st |-> "active", srv |-> 0, epoch |-> 0]
                   ELSE [st |-> "free", srv |-> 0, epoch |-> 0]]
    /\ c = <<>>
    /\ notified = TRUE
    /\ signalled = FALSE
    /\ sd = [srv |-> 0, lnerr |-> "nil", err |-> "none", left |-> 0]
    /\ \E f \in FileSystems, P \in URLPaths :
          req = [st |-> "routed", fs |-> f, path |-> P, resp |-> NoResp]

\* r.PathPrefix("/").Handler(spa): the router hands the request to the handler
ServeHTTP ==
    /\ req.st = "routed"
    /\ req' = [req EXCEPT !.st = "served", !.resp = spaHandler(req.fs, req.path)]
    /\ UNCHANGED <<variant, args, pc, exit, srv, servers, getCert, redirect, renewPc,
                   numRenews, spc, ctx, termCtx, sdCtx, conns, c, notified,
                   signalled, sd>>

HandlerNext == ServeHTTP

HandlerSpec == HandlerInit /\ [][HandlerNext]_vars

\* ------------------------------------------------------------------ claims
\* a bind failed for a reason outside the process
EnvFailure == \E s \in Servers : servers[s].err = "other"

\* C1: at most one server of the process is bound to and accepting on the
\* configured (host, port) at any instant; a replacement built on DidRenew is
\* never listening while an earlier server still is.
C1_SingleListener ==
    /\ Cardinality({s \in Servers : servers[s].state = "listening"}) <= 1
    /\ \A s \in Replacements :
          servers[s].state = "listening" =>
              \A t \in Servers : t < s => servers[t].state # "listening"

\* C1's case: a replacement listens after the server before it, which still
\* serves a connection it accepted, has released the address
C1_Witness ==
    \E s \in Replacements :
        /\ Listening(s)
        /\ servers[s - 1].state = "closed"
        /\ \E k \in ConnIds : conns[k].st = "active" /\ conns[k].srv = s - 1

\* C2: with no termination signal, no later renewal event and no listen
\* failure of another server, the server built by the latest DidRenew, once
\* its listen attempt is over, is accepting and is the active server.
C2_Claim ==
    \A s \in Replacements :
        ( /\ srv = s /\ numRenews = s /\ renewPc = "idle"
          /\ ~signalled /\ ~EnvFailure
          /\ \A t \in Servers \ {s} : servers[t].state # "failed"
          /\ servers[s].state \notin {"built", "pending"} )
        => Listening(s)

\* C3: a bind conflict met by a replacement server is retried; it is never the
\* outcome of the replacement's listen call (and so never ends the process).
C3_Claim == \A s \in Replacements : servers[s].err # "EADDRINUSE"

\* C4: absent a termination signal, a connection accepted before a DidRenew
\* event is never cut off: the rotation does not abort it.
C4_Claim ==
    (~signalled /\ ~EnvFailure) =>
        \A k \in ConnIds : ~(Aborted(k) /\ conns[k].epoch < numRenews)

\* C5: every Shutdown a hot-swap invokes on a server carries a deadline equal
\* to the configured graceful-timeout.
C5_Claim == \A s \in Servers : sdCtx[s].live => sdCtx[s].dur = args.Wait

\* C6: a termination signal (interrupt, hangup, quit) received while a server
\* is running and the main control flow is past its launch never ends the
\* process by itself: the supervisor shuts the server down.
C6_Claim ==
    ~(pc = "exited" /\ exit.by = "signal"
      /\ exit.at \in {"serve", "waitSignal", "shutdown"}
      /\ \E s \in Servers : servers[s].state = "listening")

\* C7: when the supervisor takes the signal and enters Shutdown, the deadline
\* it passes has the whole graceful-timeout left: its clock did not start
\* before the signal and no WillRenew has cancelled it.
C7_Claim == (pc = "shutdown" \/ exit.by = "shutdown") => sd.left = args.Wait

\* C8: after a termination signal the exit status is 0 when Shutdown completes
\* cleanly and non-zero when Shutdown reports an error (other than the expiry
\* of its deadline, which C9 is about).
C8_Claim ==
    (pc = "exited" /\ exit.by = "shutdown") =>
        /\ (sd.err = "nil" => exit.code = 0)
        /\ (sd.err \notin {"nil", "deadline"} => exit.code # 0)

\* C9: the expiry of the shutdown deadline with connections still open is an
\* acceptable termination: it does not produce a non-zero exit status.
C9_Claim ==
    (pc = "exited" /\ exit.by = "shutdown" /\ sd.err = "deadline") => exit.code = 0

\* C10: once a termination signal has been sent to the process, the process
\* exits, whatever its connections do.
C10_Exits == signalled ~> (pc = "exited")

\* C10's case: the supervisor gave up at the deadline with a connection that
\* never completed, and exited
C10_Witness ==
    /\ pc = "exited" /\ exit.by = "shutdown"
    /\ sd.err = "deadline"
    /\ \E k \in ConnIds : Aborted(k) /\ conns[k].srv = sd.srv

\* C11: the supervisor enters its termination sequence at most once: once it
\* is in Shutdown (or the process has ended) it never waits for a signal again,
\* and the Shutdown call it entered - its server, its listener result, its
\* deadline - is never replaced by another, whatever signals arrive meanwhile.
C11_SingleShot ==
    [][(pc \in {"shutdown", "exited"}) =>
          (pc' \in {"shutdown", "exited"} /\ sd'.srv = sd.srv
           /\ sd'.lnerr = sd.lnerr /\ sd'.left = sd.left)]_vars

\* C11's case: a further signal was received and queued while the supervisor
\* was in Shutdown
C11_Witness == pc = "shutdown" /\ signalled /\ Len(c) = 1

\* TLS is enabled and a certificate parameter of the variant's mode is missing
MissingCertParam ==
    /\ args.SSL
    /\ IF variant = "part_002"
       THEN args.FullChain = "" \/ args.PrivKey = ""
       ELSE args.Domain = "" \/ args.SSLEmail = "" \/ args.CertCache = ""

\* C12: with TLS enabled and a required certificate parameter missing, no
\* listener - main or redirect - is ever bound.
C12_Claim ==
    MissingCertParam =>
        /\ redirect # "listening"
        /\ \A s \in Servers : servers[s].state # "listening"

\* C13: a main listener (plain HTTP or TLS) whose bind failed or that ended
\* unexpectedly has ended the process with a non-zero exit status.  (The other
\* half of the claim: the ":80" redirect listener's error is dropped by the
\* go statement that starts it, and no step of the program reads it.)
C13_Claim ==
    \A s \in Servers :
        servers[s].state = "failed" => (pc = "exited" /\ exit.code # 0)

\* the file a request path names: the path, normalized, under the root
Target(P) == staticPath \o Clean(P)

\* the response that serves the file at p
Serves(resp, p) == resp.status = 200 /\ resp.body = "file" /\ resp.file = p

\* a path as the router hands it on: no "." or ".." segment, no empty segment
\* but a trailing slash
RoutedClean(P) ==
    \A i \in 1..Len(P) : P[i] \notin {".", ".."} /\ (P[i] = "" => i = Len(P))

\* C14: for a request path P routed to the SPA handler, with the index file
\* in place: if P, normalized and joined to the root, exists as a file, that
\* file is served; if it does not exist as a file (nothing is there, or what
\* is there is not a file), the index file is served.  (The answers that serve
\* nothing - a redirect, the server error for a stat that fails otherwise than
\* by "not found" - are left out.)
C14_Claim ==
    ( /\ req.st = "served" /\ RoutedClean(req.path)
      /\ Stat(req.fs, staticPath \o indexPath) = "file"
      /\ req.resp.status \notin {301, 500} )
    => IF Stat(req.fs, Target(req.path)) = "file"
       THEN Serves(req.resp, Target(req.path))
       ELSE Serves(req.resp, staticPath \o indexPath)

\* p is the directory root or lies under it
Within(root, p) == Len(p) >= Len(root) /\ SubSeq(p, 1, Len(root)) = root

\* C15: for a request path with ".." segments, the path the handler resolves
\* and stats lies within the root, and whatever the response serves (a file or
\* a directory listing) lies within the root; else the request is answered
\* with no content at all.
C15_RootConfined ==
    (req.st = "served" /\ containsDotDot(req.path)) =>
        /\ Within(staticPath, req.resp.stat)
        /\ req.resp.body # "none" => Within(staticPath, req.resp.file)

\* C15's case: a path whose ".." segments, joined to the root as they are,
\* lead out of the root to a file of the host, has been answered
C15_Witness ==
    /\ req.st = "served" /\ containsDotDot(req.path)
    /\ ~Within(staticPath, Clean(staticPath \o req.path))
    /\ Stat(req.fs, Clean(staticPath \o req.path)) = "file"
    /\ req.resp.status \in {200, 400}

\* C16: in automatic-renewal mode a TLS server that is accepting connections,
\* the initial one or a replacement, has the certificate supplier in its TLS
\* configuration: srv.TLSConfig is tlsConf and tlsConf.GetCertificate is set.
C16_Claim ==
    AutoTLS => \A s \in Servers : Listening(s) => (servers[s].TLSConfig /\ getCert)

\* C17: a WillRenew event cancels the shared context and does nothing else: the
\* step leaves the active-server reference, every server's listener and every
\* connection as they were, and main where it was; and from the WillRenew to
\* the DidRenew that follows it the active-server reference does not change.
C17_WillRenewFrame ==
    [][ /\ (renewPc = "idle" /\ renewPc' = "renewing") =>
              (srv' = srv /\ servers' = servers /\ conns' = conns
               /\ pc' = pc /\ ctx' = Cancel(ctx))
        /\ (renewPc = "renewing" /\ renewPc' = "renewing") => srv' = srv ]_vars

\* C17's case: a WillRenew has cancelled the context while the active server
\* listens and serves a connection
C17_Witness ==
    /\ renewPc = "renewing" /\ CtxDone(ctx)
    /\ Listening(srv)
    /\ \E k \in ConnIds : conns[k].st = "active" /\ conns[k].srv = srv

\* C18: launching the initial server does not block the main control flow:
\* main is never held inside the launch, waiting there for the shared context
\* to be cancelled or for the launch's own Shutdown to return, so the only
\* places it waits are the signal wait and the terminal Shutdown.
C18_Claim == pc = "serve" => (spc[0] = "wait" /\ CtxDone(ctx))

\* C19: after its construction the active-server reference srv changes only
\* in a DidRenew step, one renewal at a time, to the server that step builds;
\* and the step in which the supervisor leaves its signal wait invokes
\* Shutdown on the server built last, the one srv was assigned last.
C19_ActiveServer ==
    [][ /\ (srv' # srv) =>
              (renewPc = "renewing" /\ renewPc' = "idle"
               /\ numRenews' = numRenews + 1 /\ srv' = numRenews')
        /\ (pc = "waitSignal" /\ (pc' = "shutdown" \/ exit'.by = "shutdown")) =>
              (sd'.srv = numRenews /\ servers'[numRenews].inShutdown) ]_vars

\* C19's case: the supervisor is in the Shutdown of a replacement server
C19_Witness ==
    /\ pc = "shutdown" /\ numRenews >= 1 /\ sd.srv = numRenews
    /\ servers[sd.srv].inShutdown

\* C20: while the supervisor is in its terminal Shutdown no replacement
\* listener is started: a server built after the one being shut down (by a
\* DidRenew that came once the supervisor had entered Shutdown) never listens.
C20_Claim ==
    pc = "shutdown" =>
        \A s \in Servers : s > sd.srv => servers[s].state # "listening"

====
